---- MODULE Spec2Model ----
(***************************************************************************)
(* State-machine model of the coderr marketplace backend (Django REST      *)
(* framework): offers with their detail tiers, orders, reviews and the     *)
(* permission classes that gate each request.  The database tables are the *)
(* state; every HTTP handler is one action that runs the framework's       *)
(* pipeline in order: get_permissions, has_permission, get_object,         *)
(* has_object_permission, validation, perform_*.                           *)
(***************************************************************************)
EXTENDS Integers, Sequences, FiniteSets, TLC

VARIABLES
    users,          \* auth.User rows: [id, is_staff, username, email, auth_token]
    profiles,       \* Profil rows: [user, profile_type]
    offers,         \* Offers rows
    details,        \* OfferDetails rows
    orders,         \* Orders rows
    reviews,        \* Reviews rows
    nextOfferId,    \* next primary key of each table (AutoField)
    nextDetailId,
    nextOrderId,
    nextReviewId,
    workers,        \* per request worker: idle, or inside ReviewsViewSet.perform_create
    last            \* the last request handled and its response

dbVars  == <<users, profiles, offers, details, orders, reviews>>
idVars  == <<nextOfferId, nextDetailId, nextOrderId, nextReviewId>>
vars    == <<users, profiles, offers, details, orders, reviews,
             nextOfferId, nextDetailId, nextOrderId, nextReviewId, workers, last>>

-----------------------------------------------------------------------------
(* Bounds of the model *)

MaxReviewId == 2
NumWorkers  == 2
MaxOfferId  == 2
MaxDetailId == 4
MaxOrderId  == 2
MaxUserId   == 8

(* Program constants *)

MinRating == 1
MaxRating == 5
MinPrice == 0
MinRevisions == -1
MinDeliveryTime == 1
OfferTypes == {"basic", "standard", "premium"}
\* the declared statuses with one more
StatusChoices_and_shipped == {"in_progress", "completed", "cancelled", "shipped"}

StatusChoices == {"in_progress", "completed", "cancelled"}

-----------------------------------------------------------------------------
(* The accounts the database starts with: created through createsuperuser   *)
(* and the admin site, as the test suites' setUp does.                      *)
(*   1 customer, 2 business, 3 admin without profile, 4 admin with a        *)
(*   business profile, 5 second customer, 6 user without profile.           *)

\* text that the code normalises is kept as its sequence of code points
SeedName(i) == <<117, 48 + i>>

SeedDomain == <<120, 46, 100, 101>>

SeedUsers ==
    { [id |-> i, is_staff |-> (i \in {3, 4}), username |-> SeedName(i),
       email |-> [local |-> SeedName(i), domain |-> SeedDomain],
       auth_token |-> TRUE] : i \in 1..6 }

SeedProfiles ==
    { [user |-> 1, profile_type |-> "customer", location |-> "Hamburg"],
      [user |-> 2, profile_type |-> "business", location |-> "Berlin"],
      [user |-> 4, profile_type |-> "business", location |-> "Berlin"],
      [user |-> 5, profile_type |-> "customer", location |-> "Hamburg"] }

UserIds == {u.id : u \in users}

UserExists(pk) == \E u \in users : u.id = pk

is_staff(u) == \E x \in users : x.id = u /\ x.is_staff

\* Profil.objects.get(user=u): raises DoesNotExist when there is none
ProfilExists(u) == \E p \in profiles : p.user = u

ProfilGet(u) == CHOOSE p \in profiles : p.user = u

Response(op, method, u, pk, status, body) ==
    [op |-> op, method |-> method, user |-> u, pk |-> pk,
     status |-> status, body |-> body]

NoRequest == Response("none", "", 0, 0, 0, "")

Idle == [phase |-> "idle", user |-> 0, business_user |-> 0, rating |-> 0,
         description |-> ""]

-----------------------------------------------------------------------------
(* Permission classes (api/permissions.py) *)

\* IsAdminOrCustomPermission.has_permission with the subclass's custom check
IsAdminOrCustomPermission_has_permission(u, custom) ==
    IF is_staff(u) THEN TRUE ELSE custom

\* the default custom check replaced by one that lets everybody through
has_custom_permission_allow_all == TRUE

\* IsAdminOrCustomPermission.has_custom_permission: the default
IsAdminOrCustomPermission_has_custom_permission == FALSE

\* the POST check passed by whoever has a profile, of either type
IsCustomerForCreateOnly_any_profile(method, u) ==
    IF method = "POST" THEN ProfilExists(u) ELSE TRUE

\* IsCustomerForCreateOnly.has_permission overrides the admin-first method
IsCustomerForCreateOnly_has_permission(method, u) ==
    IF method = "POST"
    THEN IF ProfilExists(u) THEN ProfilGet(u).profile_type = "customer" ELSE FALSE
    ELSE TRUE

IsCustomerForCreateOnly_has_object_permission(method, u) ==
    IF method = "GET" THEN TRUE ELSE IsCustomerForCreateOnly_has_permission(method, u)

IsOwnerCustomerOrAdmin_has_object_permission(method, u, obj) ==
    IF method = "GET" THEN TRUE
    ELSE IF method \in {"PATCH", "DELETE"}
         THEN IF ~ProfilExists(u) THEN FALSE
              ELSE IF ProfilGet(u).profile_type = "customer" /\ obj.reviewer = u
                   THEN TRUE
                   ELSE is_staff(u)
         ELSE FALSE

-----------------------------------------------------------------------------
(* Reviews (ReviewsViewSet, ReviewsSerializer) *)

ReviewGet(pk) == CHOOSE r \in reviews : r.id = pk

ReviewExists(pk) == \E r \in reviews : r.id = pk

\* the existence check without its reviewer filter
already_reviewed_any_reviewer(b, u) ==
    \E r \in reviews : r.business_user = b

\* Reviews.objects.filter(business_user=b, reviewer=u).exists()
already_reviewed(b, u) ==
    \E r \in reviews : r.business_user = b /\ r.reviewer = u

ReviewData(b, r, d) == [business_user |-> b, rating |-> r, description |-> d]

\* the inputs of a review create: two valid payloads, and one payload for each
\* way of being invalid (0 stands for a payload without business_user, 99 for a
\* user that does not exist, the ratings lie just outside the validators)
ReviewCreateInputs ==
    { ReviewData(2, MaxRating, "good"), ReviewData(3, MaxRating, "good"),
      ReviewData(0, MaxRating, "good"), ReviewData(99, MaxRating, "good"),
      ReviewData(2, MinRating - 1, "good"), ReviewData(2, MaxRating + 1, "good"),
      ReviewData(2, MaxRating, "") }

\* ReviewsSerializer.is_valid on a full payload
ReviewsSerializer_is_valid(data) ==
    /\ UserExists(data.business_user)
    /\ data.rating >= MinRating /\ data.rating <= MaxRating
    /\ data.description # ""

\* check_permissions of ReviewsViewSet: IsAuthenticated (the requester is
\* authenticated), IsCustomerForCreateOnly, IsOwnerCustomerOrAdmin (default True)
ReviewsViewSet_check_permissions(method, u) ==
    IsCustomerForCreateOnly_has_permission(method, u)

\* check_object_permissions of ReviewsViewSet, called by its get_object
ReviewsViewSet_check_object_permissions(method, u, obj) ==
    /\ IsCustomerForCreateOnly_has_object_permission(method, u)
    /\ IsOwnerCustomerOrAdmin_has_object_permission(method, u, obj)

NewReview(u, data) ==
    [id |-> nextReviewId, business_user |-> data.business_user, reviewer |-> u,
     rating |-> data.rating, description |-> data.description]

\* the response of POST /reviews/ up to and including the existence check of
\* perform_create
ReviewsViewSet_create_check(u, data) ==
    IF ~ReviewsViewSet_check_permissions("POST", u)
    THEN [status |-> 403, body |-> "permission_denied"]
    ELSE IF ~ReviewsSerializer_is_valid(data)
    THEN [status |-> 400, body |-> "invalid"]
    ELSE IF data.business_user = 0
    THEN [status |-> 400, body |-> "business_user"]
    ELSE IF already_reviewed(data.business_user, u)
    THEN [status |-> 400, body |-> "already_reviewed"]
    ELSE [status |-> 201, body |-> "created"]

\* POST /reviews/ handled without any other request in between
ReviewsCreate(u, data) ==
    LET r == ReviewsViewSet_create_check(u, data) IN
    /\ \A w \in DOMAIN workers : workers[w].phase = "idle"
    /\ r.status = 201 => nextReviewId <= MaxReviewId
    /\ reviews' = IF r.status = 201 THEN reviews \cup {NewReview(u, data)} ELSE reviews
    /\ nextReviewId' = IF r.status = 201 THEN nextReviewId + 1 ELSE nextReviewId
    /\ last' = Response("reviews.create", "POST", u, data.business_user, r.status, r.body)
    /\ UNCHANGED <<users, profiles, offers, details, orders,
                   nextOfferId, nextDetailId, nextOrderId, workers>>

\* POST /reviews/ on worker w, first half: everything up to the existence check
\* of perform_create (views.py line 449); a request that passes holds its
\* validated payload until the save
ReviewsCreateCheck(w, u, data) ==
    LET r == ReviewsViewSet_create_check(u, data) IN
    /\ workers[w].phase = "idle"
    /\ IF r.status = 201
       THEN /\ workers' = [workers EXCEPT ![w] =
                              [phase |-> "checked", user |-> u,
                               business_user |-> data.business_user,
                               rating |-> data.rating,
                               description |-> data.description]]
            /\ UNCHANGED last
       ELSE /\ last' = Response("reviews.create", "POST", u, data.business_user,
                                r.status, r.body)
            /\ UNCHANGED workers
    /\ UNCHANGED <<users, profiles, offers, details, orders, reviews,
                   nextOfferId, nextDetailId, nextOrderId, nextReviewId>>

\* POST /reviews/ on worker w, second half: serializer.save(reviewer=user)
\* (views.py line 453); the table has no unique constraint to stop it
ReviewsCreateSave(w) ==
    LET p == workers[w] IN
    /\ p.phase = "checked"
    /\ nextReviewId <= MaxReviewId
    /\ reviews' = reviews \cup {NewReview(p.user, p)}
    /\ nextReviewId' = nextReviewId + 1
    /\ workers' = [workers EXCEPT ![w] = Idle]
    /\ last' = Response("reviews.create", "POST", p.user, p.business_user, 201, "created")
    /\ UNCHANGED <<users, profiles, offers, details, orders,
                   nextOfferId, nextDetailId, nextOrderId>>

\* the payload of a review update: the keys present and their values
ReviewPatch(k, b, r, d) ==
    [keys |-> k, business_user |-> b, rating |-> r, description |-> d]

AllReviewKeys == {"rating", "description", "business_user"}

ReviewUpdateInputs ==
    { ReviewPatch({"rating"}, 0, MinRating, ""),
      ReviewPatch({"rating"}, 0, MaxRating + 1, ""),
      ReviewPatch({"description"}, 0, 0, ""),
      ReviewPatch({"rating", "business_user"}, 3, MinRating, ""),
      ReviewPatch(AllReviewKeys, 3, MinRating, "good") }

\* ReviewsSerializer.is_valid(partial=True): only the keys present are checked
ReviewsSerializer_is_valid_partial(data) ==
    /\ "business_user" \in data.keys => UserExists(data.business_user)
    /\ "rating" \in data.keys => data.rating >= MinRating /\ data.rating <= MaxRating
    /\ "description" \in data.keys => data.description # ""

\* ReviewsViewSet.perform_update: its early returns hand a Response back to
\* UpdateModelMixin.update, which drops it; only the save is skipped
ReviewsViewSet_perform_update(u, obj, data) ==
    IF obj.reviewer # u /\ ~is_staff(u) THEN obj
    ELSE IF data.keys \ {"rating", "description"} # {} THEN obj
    ELSE [obj EXCEPT
            !.rating = IF "rating" \in data.keys THEN data.rating ELSE @,
            !.description = IF "description" \in data.keys THEN data.description ELSE @]

\* PATCH and PUT /reviews/{pk}/
ReviewsUpdate(method, u, pk, data) ==
    LET st == IF ~ReviewsViewSet_check_permissions(method, u) THEN 403
              ELSE IF ~ReviewExists(pk) THEN 404
              ELSE IF ~ReviewsViewSet_check_object_permissions(method, u, ReviewGet(pk))
              THEN 403
              ELSE IF method = "PATCH" /\ ~ReviewsSerializer_is_valid_partial(data)
              THEN 400
              ELSE IF method = "PUT"
                      /\ ~(data.keys = AllReviewKeys
                           /\ ReviewsSerializer_is_valid_partial(data))
              THEN 400
              ELSE 200
    IN
    /\ \A w \in DOMAIN workers : workers[w].phase = "idle"
    /\ reviews' = IF st = 200
                  THEN (reviews \ {ReviewGet(pk)})
                         \cup {ReviewsViewSet_perform_update(u, ReviewGet(pk), data)}
                  ELSE reviews
    /\ last' = Response("reviews.update", method, u, pk, st,
                        IF st = 200 THEN "review" ELSE "error")
    /\ UNCHANGED <<users, profiles, offers, details, orders, idVars, workers>>

\* ReviewsViewSet.perform_destroy: the early return is dropped by
\* DestroyModelMixin.destroy like the ones of perform_update
ReviewsViewSet_perform_destroy(u, obj) ==
    IF obj.reviewer # u /\ ~is_staff(u) THEN reviews ELSE reviews \ {obj}

\* DELETE /reviews/{pk}/
ReviewsDestroy(u, pk) ==
    LET st == IF ~ReviewsViewSet_check_permissions("DELETE", u) THEN 403
              ELSE IF ~ReviewExists(pk) THEN 404
              ELSE IF ~ReviewsViewSet_check_object_permissions("DELETE", u, ReviewGet(pk))
              THEN 403
              ELSE 204
    IN
    /\ reviews' = IF st = 204 THEN ReviewsViewSet_perform_destroy(u, ReviewGet(pk))
                  ELSE reviews
    /\ last' = Response("reviews.destroy", "DELETE", u, pk, st,
                        IF st = 204 THEN "" ELSE "error")
    /\ UNCHANGED <<users, profiles, offers, details, orders, idVars, workers>>

-----------------------------------------------------------------------------
(* Permission classes of the offer endpoints (api/permissions.py) *)

\* the POST check passed by whoever has a profile, of either type
IsBusinessForCreateOnly_any_profile(method, u) ==
    IF method # "POST" THEN TRUE ELSE ProfilExists(u)

IsBusinessForCreateOnly_has_custom_permission(method, u) ==
    IF method # "POST" THEN TRUE
    ELSE IF ProfilExists(u) THEN ProfilGet(u).profile_type = "business" ELSE FALSE

OfferExists(pk) == \E o \in offers : o.id = pk

OfferGet(pk) == CHOOSE o \in offers : o.id = pk

IsOwnerForPatchOnly_has_custom_permission(method, u, pk) ==
    IF method \notin {"PATCH", "DELETE"} THEN TRUE
    ELSE IF OfferExists(pk) THEN u = OfferGet(pk).user ELSE FALSE

-----------------------------------------------------------------------------
(* Offers and offer details (OffersViewSet, OffersSerializer,               *)
(* OfferDetailsViewSet, OfferDetailsSerializer)                             *)

Detail(title, revisions, price, days, features, offer_type) ==
    [title |-> title, revisions |-> revisions, price |-> price,
     delivery_time_in_days |-> days, features |-> features,
     offer_type |-> offer_type]

\* detail payloads; an offer_type of "" stands for a payload without the key
Basic    == Detail("Basic", 1, 10, 3, <<"logo">>, "basic")
Standard == Detail("Standard", 2, 20, 2, <<"logo", "card">>, "standard")
Premium  == Detail("Premium", -1, 30, 1, <<"logo", "card", "flyer">>, "premium")
Budget   == Detail("Budget", 0, 5, 4, <<>>, "basic")
Untyped  == Detail("Untyped", 1, 7, 2, <<>>, "")
Negative == Detail("Negative", 1, MinPrice - 1, 2, <<>>, "premium")

OfferData(keys, title, description, dets) ==
    [keys |-> keys, title |-> title, description |-> description, details |-> dets]

AllOfferKeys == {"title", "description", "details"}

\* the inputs of an offer create: detail lists of every length from 0 to 4,
\* the cheapest and the fastest detail in different places, a repeated tier,
\* a detail without offer_type, an invalid detail, and a payload without details
OfferCreateInputs ==
    { OfferData(AllOfferKeys, "Logo", "d", <<Basic, Standard, Premium>>),
      OfferData(AllOfferKeys, "Web", "d", <<Premium, Standard, Budget>>),
      OfferData(AllOfferKeys, "Logo", "d", <<>>),
      OfferData(AllOfferKeys, "Logo", "d", <<Standard>>),
      OfferData(AllOfferKeys, "Logo", "d", <<Premium, Basic>>),
      OfferData(AllOfferKeys, "Logo", "d", <<Basic, Standard, Premium, Budget>>),
      OfferData(AllOfferKeys, "Logo", "d", <<Untyped, Standard, Premium>>),
      OfferData(AllOfferKeys, "Logo", "d", <<Basic, Negative, Premium>>),
      OfferData({"title", "description"}, "Logo", "d", <<>>) }

\* OfferDetailsSerializer: the field validators of one detail
OfferDetailsSerializer_is_valid(d) ==
    /\ d.title # ""
    /\ d.revisions >= MinRevisions
    /\ d.price >= MinPrice
    /\ d.delivery_time_in_days >= MinDeliveryTime
    /\ d.offer_type \in OfferTypes \cup {""}

\* OffersSerializer.is_valid; a partial update checks only the keys present
OffersSerializer_is_valid(data, partial) ==
    /\ ~partial => data.keys = AllOfferKeys
    /\ "title" \in data.keys => data.title # ""
    /\ "description" \in data.keys => data.description # ""
    /\ "details" \in data.keys =>
          \A i \in 1..Len(data.details) : OfferDetailsSerializer_is_valid(data.details[i])

DetailsOf(ds, offer_id) == {d \in ds : d.offer = offer_id}

Minimum(S) == CHOOSE x \in S : \A y \in S : x <= y

Maximum(S) == CHOOSE x \in S : \A y \in S : x >= y

\* .aggregate(Max(field)) or 0
aggregate_max_or_0(S) == IF S = {} THEN 0 ELSE Maximum(S)

\* .aggregate(Min(field)) or 0: None for no rows
aggregate_min_or_0(S) == IF S = {} THEN 0 ELSE Minimum(S)

\* the offer row with min_price and min_delivery_time recomputed over ds
recalculate(offer, ds) ==
    [offer EXCEPT
        !.min_price =
            aggregate_min_or_0({d.price : d \in DetailsOf(ds, offer.id)}),
        !.min_delivery_time =
            aggregate_min_or_0({d.delivery_time_in_days : d \in DetailsOf(ds, offer.id)})]

\* OfferDetails.objects.create(offer=offer, **detail_data); the model default
\* fills in a missing offer_type
NewDetail(id, offer_id, d) ==
    [id |-> id, offer |-> offer_id, title |-> d.title, revisions |-> d.revisions,
     price |-> d.price, delivery_time_in_days |-> d.delivery_time_in_days,
     features |-> d.features,
     offer_type |-> IF d.offer_type = "" THEN "basic" ELSE d.offer_type]

\* OffersSerializer.create: the rows written for a valid payload
OffersSerializer_create(u, data) ==
    LET n == Len(data.details)
        new == {NewDetail(nextDetailId + i - 1, nextOfferId, data.details[i]) : i \in 1..n}
        row == [id |-> nextOfferId, user |-> u, title |-> data.title,
                description |-> data.description, min_price |-> 0,
                min_delivery_time |-> 0]
    IN [offer |-> recalculate(row, new), details |-> new]

\* get_permissions of OffersViewSet for the write actions, then has_permission
OffersViewSet_check_permissions(method, u, pk) ==
    IF method = "POST"
    THEN IsAdminOrCustomPermission_has_permission(
             u, IsBusinessForCreateOnly_has_custom_permission(method, u))
    ELSE IsAdminOrCustomPermission_has_permission(
             u, IsOwnerForPatchOnly_has_custom_permission(method, u, pk))

\* POST /offers/
OffersCreate(u, data) ==
    LET st == IF ~OffersViewSet_check_permissions("POST", u, 0) THEN 403
              ELSE IF ~OffersSerializer_is_valid(data, FALSE) THEN 400
              ELSE 201
        made == OffersSerializer_create(u, data)
    IN
    /\ st = 201 => /\ nextOfferId <= MaxOfferId
                   /\ nextDetailId + Len(data.details) - 1 <= MaxDetailId
    /\ offers' = IF st = 201 THEN offers \cup {made.offer} ELSE offers
    /\ details' = IF st = 201 THEN details \cup made.details ELSE details
    /\ nextOfferId' = IF st = 201 THEN nextOfferId + 1 ELSE nextOfferId
    /\ nextDetailId' = IF st = 201 THEN nextDetailId + Len(data.details) ELSE nextDetailId
    /\ last' = Response("offers.create", "POST", u,
                        IF st = 201 THEN nextOfferId ELSE 0, st,
                        IF st = 201 THEN "offer" ELSE "error")
    /\ UNCHANGED <<users, profiles, orders, reviews, nextOrderId, nextReviewId, workers>>

\* instance.offer_details.filter(offer_type=t).first(): the lowest primary key
first_of_type(ds, offer_id, t) ==
    LET found == {d \in DetailsOf(ds, offer_id) : d.offer_type = t}
    IN CHOOSE d \in found : \A e \in found : d.id <= e.id

\* the loop of OffersViewSet.perform_update over the raw details list, from
\* entry i on: ds are the detail rows so far, nid the next primary key.  Every
\* entry is saved as it is processed; an entry without offer_type raises
\* ValidationError and leaves what was saved before it.
RECURSIVE perform_update_loop(_, _, _, _, _)
perform_update_loop(offer_id, dets, i, ds, nid) ==
    IF i > Len(dets) THEN [ok |-> TRUE, details |-> ds, next |-> nid]
    ELSE LET d == dets[i] IN
         IF d.offer_type = "" THEN [ok |-> FALSE, details |-> ds, next |-> nid]
         ELSE IF \E e \in DetailsOf(ds, offer_id) : e.offer_type = d.offer_type
         THEN LET e == first_of_type(ds, offer_id, d.offer_type)
              IN perform_update_loop(offer_id, dets, i + 1,
                     (ds \ {e}) \cup {NewDetail(e.id, offer_id, d)}, nid)
         ELSE perform_update_loop(offer_id, dets, i + 1,
                     ds \cup {NewDetail(nid, offer_id, d)}, nid + 1)

\* OffersViewSet.perform_update: [ok, offer, details, next]
OffersViewSet_perform_update(instance, data) ==
    LET titled == [instance EXCEPT
                     !.title = IF "title" \in data.keys THEN data.title ELSE @,
                     !.description =
                         IF "description" \in data.keys THEN data.description ELSE @]
        looped == IF "details" \in data.keys
                  THEN perform_update_loop(instance.id, data.details, 1, details,
                                           nextDetailId)
                  ELSE [ok |-> TRUE, details |-> details, next |-> nextDetailId]
        processed_offer_types ==
            {data.details[i].offer_type : i \in 1..Len(data.details)}
        kept == IF "details" \in data.keys
                THEN {d \in looped.details :
                        d.offer = instance.id => d.offer_type \in processed_offer_types}
                ELSE looped.details
    IN IF looped.ok
       THEN [ok |-> TRUE, offer |-> recalculate(titled, kept), details |-> kept,
             next |-> looped.next]
       ELSE [ok |-> FALSE, offer |-> instance, details |-> looped.details,
             next |-> looped.next]

\* the inputs of an offer update
OfferUpdateInputs ==
    { OfferData({"title"}, "Web", "", <<>>),
      OfferData({"details"}, "", "", <<Budget>>),
      OfferData({"details"}, "", "", <<Standard, Premium>>),
      OfferData({"details"}, "", "", <<>>),
      OfferData({"title", "details"}, "Web", "", <<Budget, Untyped>>) }

\* the checks of an offer update with the permission classes asked before
\* the offer is looked up
OffersViewSet_update_check_permission_first(method, u, pk, data) ==
    IF ~OffersViewSet_check_permissions(method, u, pk) THEN 403
    ELSE IF ~OfferExists(pk) THEN 404
    ELSE IF ~OffersSerializer_is_valid(data, TRUE) THEN 400
    ELSE 0

\* the response of PATCH and PUT /offers/{pk}/ before perform_update runs
\* (0: not decided yet)
OffersViewSet_update_check(method, u, pk, data) ==
    IF ~OfferExists(pk) THEN 404
    ELSE IF ~OffersViewSet_check_permissions(method, u, pk) THEN 403
    ELSE IF ~OffersSerializer_is_valid(data, TRUE) THEN 400
    ELSE 0

\* PATCH and PUT /offers/{pk}/: both run OffersViewSet.update with partial=True
OffersUpdate(method, u, pk, data) ==
    LET st == OffersViewSet_update_check(method, u, pk, data) IN
    IF st # 0
    THEN /\ last' = Response("offers.update", method, u, pk, st, "error")
         /\ UNCHANGED <<dbVars, idVars, workers>>
    ELSE \E res \in {OffersViewSet_perform_update(OfferGet(pk), data)} :
         /\ res.next - 1 <= MaxDetailId
         /\ offers' = (offers \ {OfferGet(pk)}) \cup {res.offer}
         /\ details' = res.details
         /\ nextDetailId' = res.next
         /\ last' = IF res.ok THEN Response("offers.update", method, u, pk, 200, "offer")
                    ELSE Response("offers.update", method, u, pk, 400, "error")
         /\ UNCHANGED <<users, profiles, orders, reviews, nextOfferId, nextOrderId,
                        nextReviewId, workers>>

\* DELETE /offers/{pk}/: the details go with the offer (on_delete=CASCADE)
OffersDestroy(u, pk) ==
    LET st == IF ~OfferExists(pk) THEN 404
              ELSE IF ~OffersViewSet_check_permissions("DELETE", u, pk) THEN 403
              ELSE 204
    IN
    /\ offers' = IF st = 204 THEN offers \ {OfferGet(pk)} ELSE offers
    /\ details' = IF st = 204 THEN {d \in details : d.offer # pk} ELSE details
    /\ last' = Response("offers.destroy", "DELETE", u, pk, st,
                        IF st = 204 THEN "" ELSE "error")
    /\ UNCHANGED <<users, profiles, orders, reviews, idVars, workers>>

DetailExists(pk) == \E d \in details : d.id = pk

DetailGet(pk) == CHOOSE d \in details : d.id = pk

\* POST /offerdetails/: the serializer has no offer field, so the INSERT
\* violates NOT NULL on offer_id and the request ends in a server error
OfferDetailsCreate(u, d) ==
    LET st == IF ~OfferDetailsSerializer_is_valid(d) THEN 400 ELSE 500 IN
    /\ last' = Response("offerdetails.create", "POST", u, 0, st, "error")
    /\ UNCHANGED <<dbVars, idVars, workers>>

\* PUT and PATCH /offerdetails/{pk}/: ModelViewSet's update, nothing else
OfferDetailsUpdate(method, u, pk, d) ==
    LET st == IF ~DetailExists(pk) THEN 404
              ELSE IF ~OfferDetailsSerializer_is_valid(d) THEN 400
              ELSE 200
        old == DetailGet(pk)
    IN
    /\ details' = IF st = 200
                  THEN (details \ {old}) \cup {NewDetail(old.id, old.offer,
                            [d EXCEPT !.offer_type =
                                 IF d.offer_type = "" THEN old.offer_type ELSE @])}
                  ELSE details
    /\ last' = Response("offerdetails.update", method, u, pk, st,
                        IF st = 200 THEN "detail" ELSE "error")
    /\ UNCHANGED <<users, profiles, offers, orders, reviews, idVars, workers>>

\* DELETE /offerdetails/{pk}/
OfferDetailsDestroy(u, pk) ==
    LET st == IF ~DetailExists(pk) THEN 404 ELSE 204 IN
    /\ details' = IF st = 204 THEN details \ {DetailGet(pk)} ELSE details
    /\ last' = Response("offerdetails.destroy", "DELETE", u, pk, st,
                        IF st = 204 THEN "" ELSE "error")
    /\ UNCHANGED <<users, profiles, offers, orders, reviews, idVars, workers>>

-----------------------------------------------------------------------------
(* Offer create and offer update, one database write at a time: neither     *)
(* OffersSerializer.create nor OffersViewSet.perform_update opens a         *)
(* transaction, so every write is committed, and visible, when it is made   *)

\* what a worker holds while it handles an offer request: the request, the
\* offer it works on and the index of the next details entry
Busy(phase, method, u, pk, data, i) ==
    [phase |-> phase, method |-> method, user |-> u, pk |-> pk, data |-> data, i |-> i]

\* POST /offers/ up to Offers.objects.create(**validated_data): the row is
\* written with the model defaults of min_price and min_delivery_time
OffersCreateBegin(w, u, data) ==
    LET st == IF ~OffersViewSet_check_permissions("POST", u, 0) THEN 403
              ELSE IF ~OffersSerializer_is_valid(data, FALSE) THEN 400
              ELSE 201
    IN
    /\ workers[w].phase = "idle"
    /\ IF st # 201
       THEN /\ last' = Response("offers.create", "POST", u, 0, st, "error")
            /\ UNCHANGED <<dbVars, idVars, workers>>
       ELSE /\ nextOfferId <= MaxOfferId
            /\ nextDetailId + Len(data.details) - 1 <= MaxDetailId
            /\ offers' = offers \cup
                  {[id |-> nextOfferId, user |-> u, title |-> data.title,
                    description |-> data.description, min_price |-> 0,
                    min_delivery_time |-> 0]}
            /\ nextOfferId' = nextOfferId + 1
            /\ workers' = [workers EXCEPT
                              ![w] = Busy("create", "POST", u, nextOfferId, data, 1)]
            /\ UNCHANGED <<users, profiles, details, orders, reviews, nextDetailId,
                           nextOrderId, nextReviewId, last>>

\* one turn of the loop of OffersSerializer.create:
\* OfferDetails.objects.create(offer=offer, **detail_data)
OffersCreateDetail(w) ==
    LET job == workers[w] IN
    /\ job.phase = "create" /\ job.i <= Len(job.data.details)
    /\ details' = details \cup {NewDetail(nextDetailId, job.pk, job.data.details[job.i])}
    /\ nextDetailId' = nextDetailId + 1
    /\ workers' = [workers EXCEPT ![w].i = job.i + 1]
    /\ UNCHANGED <<users, profiles, offers, orders, reviews, nextOfferId, nextOrderId,
                   nextReviewId, last>>

\* the end of OffersSerializer.create: aggregate, offer.save(), and the 201
OffersCreateSave(w) ==
    LET job == workers[w]
        row == CHOOSE o \in offers : o.id = job.pk
    IN
    /\ job.phase = "create" /\ job.i > Len(job.data.details)
    /\ offers' = (offers \ {row}) \cup {recalculate(row, details)}
    /\ workers' = [workers EXCEPT ![w] = Idle]
    /\ last' = Response("offers.create", "POST", job.user, job.pk, 201, "offer")
    /\ UNCHANGED <<users, profiles, details, orders, reviews, idVars>>

\* PATCH and PUT /offers/{pk}/ up to the loop of perform_update; setattr on
\* the instance writes nothing yet
OffersUpdateBegin(w, method, u, pk, data) ==
    LET st == OffersViewSet_update_check(method, u, pk, data) IN
    /\ workers[w].phase = "idle"
    /\ IF st # 0
       THEN /\ last' = Response("offers.update", method, u, pk, st, "error")
            /\ UNCHANGED <<dbVars, idVars, workers>>
       ELSE /\ workers' = [workers EXCEPT
                              ![w] = Busy("update", method, u, pk, data, 1)]
            /\ UNCHANGED <<dbVars, idVars, last>>

\* one turn of the loop of perform_update: an entry without offer_type ends
\* the request with 400, any other entry is saved over the first detail of
\* its tier or as a new detail
OffersUpdateDetail(w) ==
    LET job == workers[w]
        d == job.data.details[job.i]
    IN
    /\ job.phase = "update"
    /\ "details" \in job.data.keys /\ job.i <= Len(job.data.details)
    /\ IF d.offer_type = ""
       THEN /\ workers' = [workers EXCEPT ![w] = Idle]
            /\ last' = Response("offers.update", job.method, job.user, job.pk, 400, "error")
            /\ UNCHANGED <<dbVars, idVars>>
       ELSE /\ IF \E e \in DetailsOf(details, job.pk) : e.offer_type = d.offer_type
               THEN LET e == first_of_type(details, job.pk, d.offer_type) IN
                    /\ details' = (details \ {e}) \cup {NewDetail(e.id, job.pk, d)}
                    /\ UNCHANGED nextDetailId
               ELSE /\ nextDetailId <= MaxDetailId
                    /\ details' = details \cup {NewDetail(nextDetailId, job.pk, d)}
                    /\ nextDetailId' = nextDetailId + 1
            /\ workers' = [workers EXCEPT ![w].i = job.i + 1]
            /\ UNCHANGED <<users, profiles, offers, orders, reviews, nextOfferId,
                           nextOrderId, nextReviewId, last>>

\* after the loop: instance.offer_details.exclude(offer_type__in=...).delete()
OffersUpdateDelete(w) ==
    LET job == workers[w]
        processed_offer_types ==
            {job.data.details[i].offer_type : i \in 1..Len(job.data.details)}
    IN
    /\ job.phase = "update"
    /\ "details" \in job.data.keys /\ job.i > Len(job.data.details)
    /\ details' = {d \in details :
                     d.offer = job.pk => d.offer_type \in processed_offer_types}
    /\ workers' = [workers EXCEPT ![w].phase = "update.save"]
    /\ UNCHANGED <<users, profiles, offers, orders, reviews, idVars, last>>

\* the end of perform_update: aggregate, instance.save() with the fields set
\* at the start, and the 200
OffersUpdateSave(w) ==
    LET job == workers[w] IN
    /\ \/ job.phase = "update.save"
       \/ job.phase = "update" /\ "details" \notin job.data.keys
    /\ offers' = {IF o.id = job.pk
                  THEN recalculate(
                         [o EXCEPT
                            !.title = IF "title" \in job.data.keys
                                      THEN job.data.title ELSE @,
                            !.description = IF "description" \in job.data.keys
                                            THEN job.data.description ELSE @],
                         details)
                  ELSE o : o \in offers}
    /\ workers' = [workers EXCEPT ![w] = Idle]
    /\ last' = Response("offers.update", job.method, job.user, job.pk, 200, "offer")
    /\ UNCHANGED <<users, profiles, details, orders, reviews, idVars>>

-----------------------------------------------------------------------------
(* Orders (OrdersViewSet, OrderCreateSerializer) *)

OrderExists(pk) == \E o \in orders : o.id = pk

OrderGet(pk) == CHOOSE o \in orders : o.id = pk

\* the PATCH check passed by the business user only while the order is in
\* progress
IsBusinessForPatchOnly_in_progress_only(method, u, pk) ==
    IF method # "PATCH" THEN TRUE
    ELSE IF OrderExists(pk)
         THEN OrderGet(pk).business_user = u /\ OrderGet(pk).status = "in_progress"
         ELSE FALSE

IsBusinessForPatchOnly_has_custom_permission(method, u, pk) ==
    IF method # "PATCH" THEN TRUE
    ELSE IF OrderExists(pk) THEN OrderGet(pk).business_user = u ELSE FALSE

\* OrdersViewSet.get_permissions picks the class by request.method; the
\* result of its has_permission (IsAuthenticated holds for every requester)
OrdersViewSet_check_permissions(method, u, pk) ==
    IF method = "POST" THEN IsCustomerForCreateOnly_has_permission(method, u)
    ELSE IF method = "DELETE"
    THEN IsAdminOrCustomPermission_has_permission(
             u, IsAdminOrCustomPermission_has_custom_permission)
    ELSE IF method = "PATCH"
    THEN IsAdminOrCustomPermission_has_permission(
             u, IsBusinessForPatchOnly_has_custom_permission(method, u, pk))
    ELSE TRUE

\* a model instance as the ORM sees it when it is assigned to a relation
Instance(model, pk) == [model |-> model, pk |-> pk]

\* ForeignKey assignment (Model.__init__): the value has to be an instance of
\* the related model, anything else raises ValueError
ForeignKey_accepts(value, to) == value.model = to

\* the row OrderCreateSerializer.create builds from the chosen OfferDetails
OrderFrom(customer, offer_detail) ==
    [id |-> nextOrderId,
     customer_user |-> customer.pk,
     business_user |-> OfferGet(offer_detail.offer).user,
     title |-> OfferGet(offer_detail.offer).title,
     revisions |-> offer_detail.revisions,
     delivery_time_in_days |-> offer_detail.delivery_time_in_days,
     price |-> offer_detail.price,
     features |-> offer_detail.features,
     offer_type |-> offer_detail.offer_type,
     status |-> "in_progress"]

\* OrderCreateSerializer.create: the response, and the row when there is one.
\* customer_user is given the requester's Profil, not the User.
OrderCreateSerializer_create(u, offer_detail_id) ==
    LET customer_profile == Instance("Profil", u) IN
    IF ~DetailExists(offer_detail_id) THEN [status |-> 400, rows |-> {}]
    ELSE IF ~ProfilExists(u) THEN [status |-> 400, rows |-> {}]
    ELSE IF ~ForeignKey_accepts(customer_profile, "User")
    THEN [status |-> 500, rows |-> {}]
    ELSE [status |-> 201,
          rows |-> {OrderFrom(customer_profile, DetailGet(offer_detail_id))}]

\* POST /orders/
OrdersCreate(u, offer_detail_id) ==
    LET r == IF ~OrdersViewSet_check_permissions("POST", u, 0)
             THEN [status |-> 403, rows |-> {}]
             ELSE OrderCreateSerializer_create(u, offer_detail_id)
    IN
    /\ r.status = 201 => nextOrderId <= MaxOrderId
    /\ orders' = orders \cup r.rows
    /\ nextOrderId' = nextOrderId + Cardinality(r.rows)
    /\ last' = Response("orders.create", "POST", u, offer_detail_id, r.status,
                        IF r.status = 201 THEN "order" ELSE "error")
    /\ UNCHANGED <<users, profiles, offers, details, reviews,
                   nextOfferId, nextDetailId, nextReviewId, workers>>

\* an order added through the admin site (admin.site.register(Orders)), as
\* the test suite's setUp adds one through the ORM
OrdersAdminAdd(customer, business, title, d) ==
    /\ nextOrderId <= MaxOrderId
    /\ orders' = orders \cup
          { [id |-> nextOrderId, customer_user |-> customer,
             business_user |-> business, title |-> title,
             revisions |-> d.revisions,
             delivery_time_in_days |-> d.delivery_time_in_days,
             price |-> d.price, features |-> d.features,
             offer_type |-> d.offer_type, status |-> "in_progress"] }
    /\ nextOrderId' = nextOrderId + 1
    /\ last' = Response("admin.orders.add", "POST", 0, nextOrderId, 302, "")
    /\ UNCHANGED <<users, profiles, offers, details, reviews,
                   nextOfferId, nextDetailId, nextReviewId, workers>>

\* the status values a request may carry: the declared ones, an undeclared
\* one and none ("")
StatusInputs == StatusChoices \cup {"shipped", ""}

\* PUT and PATCH /orders/{pk}/: both are routed to OrdersViewSet.update
OrdersUpdate(method, u, pk, new_status) ==
    LET st == IF ~OrderExists(pk) THEN 404
              ELSE IF ~OrdersViewSet_check_permissions(method, u, pk) THEN 403
              ELSE IF new_status \notin StatusChoices THEN 400
              ELSE 200
    IN
    /\ orders' = IF st = 200
                 THEN (orders \ {OrderGet(pk)})
                        \cup {[OrderGet(pk) EXCEPT !.status = new_status]}
                 ELSE orders
    /\ last' = Response("orders.update", method, u, pk, st,
                        IF st = 200 THEN "order" ELSE "error")
    /\ UNCHANGED <<users, profiles, offers, details, reviews, idVars, workers>>

\* DELETE /orders/{pk}/
OrdersDestroy(u, pk) ==
    LET st == IF ~OrderExists(pk) THEN 404
              ELSE IF ~OrdersViewSet_check_permissions("DELETE", u, pk) THEN 403
              ELSE 200
    IN
    /\ orders' = IF st = 200 THEN orders \ {OrderGet(pk)} ELSE orders
    /\ last' = Response("orders.destroy", "DELETE", u, pk, st,
                        IF st = 200 THEN "" ELSE "error")
    /\ UNCHANGED <<users, profiles, offers, details, reviews, idVars, workers>>

\* OrdersViewSet.get_queryset with the orders a requester placed, and not
\* the ones placed with him
OrdersViewSet_get_queryset_customer_only(u) ==
    IF is_staff(u) THEN orders
    ELSE {o \in orders : o.customer_user = u}

\* OrdersViewSet.get_queryset
OrdersViewSet_get_queryset(u) ==
    IF is_staff(u) THEN orders
    ELSE {o \in orders : o.customer_user = u} \cup {o \in orders : o.business_user = u}

\* GET /orders/: get_permissions returns IsAuthenticated alone; the body of
\* the response is the set of orders listed
OrdersList(u) ==
    LET st == IF u = 0 THEN 401 ELSE 200 IN
    /\ last' = Response("orders.list", "GET", u, 0, st,
                        IF st = 200 THEN OrdersViewSet_get_queryset(u) ELSE {})
    /\ UNCHANGED <<dbVars, idVars, workers>>

\* GET /orders/{pk}/: get_permissions looks the order up first (404), then
\* returns IsAuthenticated alone; get_object reads Orders, not get_queryset,
\* and checks no object permission.  The body is the order.
OrdersRetrieve(u, pk) ==
    LET st == IF ~OrderExists(pk) THEN 404
              ELSE IF u = 0 THEN 401
              ELSE 200
    IN
    /\ last' = Response("orders.retrieve", "GET", u, pk, st,
                        IF st = 200 THEN OrderGet(pk) ELSE [error |-> st])
    /\ UNCHANGED <<dbVars, idVars, workers>>

\* the count of BusinessOrderCountViewSet.list taken over every status
BusinessOrderCountViewSet_count_any_status(pk) ==
    Cardinality({o \in orders : o.business_user = pk})

\* Orders.objects.filter(business_user_id=pk, status="in_progress").count()
BusinessOrderCountViewSet_count(pk) ==
    Cardinality({o \in orders : o.business_user = pk /\ o.status = "in_progress"})

\* Orders.objects.filter(business_user_id=pk, status="completed").count()
BusinessCompletedOrderCountViewSet_count(pk) ==
    Cardinality({o \in orders : o.business_user = pk /\ o.status = "completed"})

\* GET /order-count/{pk}/ (0 is a request without credentials)
BusinessOrderCountList(u, pk) ==
    LET st == IF u = 0 THEN 401 ELSE IF ~UserExists(pk) THEN 404 ELSE 200 IN
    /\ last' = Response("order-count", "GET", u, pk, st,
                        IF st = 200
                        THEN [order_count |-> BusinessOrderCountViewSet_count(pk)]
                        ELSE [error |-> st])
    /\ UNCHANGED <<dbVars, idVars, workers>>

\* GET /completed-order-count/{pk}/
BusinessCompletedOrderCountList(u, pk) ==
    LET st == IF u = 0 THEN 401 ELSE IF ~UserExists(pk) THEN 404 ELSE 200 IN
    /\ last' = Response("completed-order-count", "GET", u, pk, st,
                        IF st = 200
                        THEN [completed_order_count |->
                                 BusinessCompletedOrderCountViewSet_count(pk)]
                        ELSE [error |-> st])
    /\ UNCHANGED <<dbVars, idVars, workers>>

-----------------------------------------------------------------------------
(* Profiles (ProfileDetailView, BusinessProfilesListView,                   *)
(* CustomerProfilesListView)                                                *)

\* the requester of a request without credentials (AnonymousUser)
Anonymous == 0

\* IsAuthenticated.has_permission
IsAuthenticated(u) == u # Anonymous

\* IsOwnerOfProfile.has_object_permission: reading is open to every
\* authenticated requester, modifying to the profile's owner alone (there is
\* no admin override)
IsOwnerOfProfile_has_object_permission(method, u, obj) ==
    IF method = "GET" THEN TRUE ELSE obj.user = u

\* ProfileDetailView.get_object without the call of check_object_permissions
ProfileDetailView_get_object_unchecked(method, u, pk) ==
    IF ~ProfilExists(pk) THEN 404 ELSE 0

\* ProfileDetailView.get_object: the status it raises (0: none); pk is the
\* id of the profile's user
ProfileDetailView_get_object(method, u, pk) ==
    IF ~ProfilExists(pk) THEN 404
    ELSE IF ~IsOwnerOfProfile_has_object_permission(method, u, ProfilGet(pk)) THEN 403
    ELSE 0

\* the locations a PATCH may carry
LocationInputs == {"Berlin", "Frankfurt"}

\* PATCH /profile/{pk}/ {location}: no file is sent, so perform_update runs
\* serializer.save()
ProfileUpdate(u, pk, location) ==
    LET st == IF ~IsAuthenticated(u) THEN 401
              ELSE IF ProfileDetailView_get_object("PATCH", u, pk) # 0
              THEN ProfileDetailView_get_object("PATCH", u, pk)
              ELSE 200
    IN
    /\ profiles' = IF st = 200
                   THEN (profiles \ {ProfilGet(pk)})
                          \cup {[ProfilGet(pk) EXCEPT !.location = location]}
                   ELSE profiles
    /\ last' = Response("profile.update", "PATCH", u, pk, st,
                        IF st = 200 THEN "profile" ELSE "error")
    /\ UNCHANGED <<users, offers, details, orders, reviews, idVars, workers>>

\* BusinessProfilesListView.get_queryset and CustomerProfilesListView.get_queryset
ProfilesListView_get_queryset(profile_type) ==
    {p \in profiles : p.profile_type = profile_type}

\* GET /profiles/business/ and GET /profiles/customer/: both views ask for
\* IsAuthenticated; the body of a list response is the set of rows listed
ProfilesList(u, profile_type) ==
    LET st == IF ~IsAuthenticated(u) THEN 401 ELSE 200 IN
    /\ last' = Response("profiles.list." \o profile_type, "GET", u, 0, st,
                        IF st = 200 THEN ProfilesListView_get_queryset(profile_type)
                        ELSE {})
    /\ UNCHANGED <<dbVars, idVars, workers>>

-----------------------------------------------------------------------------
(* Registration (RegisterAPIView) *)

\* Profil.type_choices
type_choices == {"customer", "business"}

\* unicodedata.normalize('NFKC', .) on one code point: the ligature U+FB01
\* becomes "fi", the letters and digits used here stay as they are
nfkc(c) == IF c = 64257 THEN <<102, 105>> ELSE <<c>>

\* AbstractBaseUser.normalize_username
RECURSIVE normalize_username(_)
normalize_username(s) ==
    IF s = <<>> THEN <<>> ELSE nfkc(Head(s)) \o normalize_username(Tail(s))

\* str.lower on one code point
lower(c) == IF c \in 65..90 THEN c + 32 ELSE c

\* BaseUserManager.normalize_email: the domain part in lower case
normalize_email(e) ==
    [local |-> e.local, domain |-> [i \in 1..Len(e.domain) |-> lower(e.domain[i])]]

\* django.core.validators.validate_email, as far as the payloads here go
validate_email(e) == e.local # <<>> /\ e.domain # <<>>

RegisterData(username, email, password, repeated_password, type) ==
    [username |-> username, email |-> email, password |-> password,
     repeated_password |-> repeated_password, type |-> type]

Ann == <<97, 110, 110>>
Fin == <<102, 105, 110>>
FinLigature == <<64257, 110>>
LowerDomain == <<120, 46, 105, 111>>
UpperDomain == <<88, 46, 105, 111>>
Email(local, domain) == [local |-> local, domain |-> domain]

\* the payloads of POST /registration/
RegisterInputs ==
    { RegisterData(n, e, pw[1], pw[2], t) :
        n \in {Ann, Fin, FinLigature, <<>>},
        e \in {Email(Ann, LowerDomain), Email(Ann, UpperDomain), Email(Fin, LowerDomain),
               Email(Ann, <<>>), Email(<<>>, <<>>)},
        pw \in {<<"pw", "pw">>, <<"pw", "other">>, <<"", "">>},
        t \in {"customer", "business", "admin", ""} }

\* the response of RegisterAPIView.post.  validate_email raises Django's
\* ValidationError while the except clause names the framework's, so an
\* invalid address is a server error; create_user stores the normalised
\* username, whose unique index refuses a second row (IntegrityError)
RegisterAPIView_status(data) ==
    IF data.username = <<>> THEN 400
    ELSE IF data.email = Email(<<>>, <<>>) THEN 400
    ELSE IF data.password = "" THEN 400
    ELSE IF data.type = "" THEN 400
    ELSE IF ~validate_email(data.email) THEN 500
    ELSE IF data.password # data.repeated_password THEN 400
    ELSE IF \E u \in users : u.username = data.username THEN 400
    ELSE IF \E u \in users : u.email = data.email THEN 400
    ELSE IF \E u \in users : u.username = normalize_username(data.username) THEN 500
    ELSE 201

\* POST /registration/: User.objects.create_user, Profil.objects.create and
\* Token.objects.get_or_create
Register(data) ==
    LET st == RegisterAPIView_status(data)
        id == Maximum(UserIds) + 1
    IN
    /\ st = 201 => id <= MaxUserId
    /\ users' = IF st = 201
                THEN users \cup {[id |-> id, is_staff |-> FALSE,
                                  username |-> normalize_username(data.username),
                                  email |-> normalize_email(data.email),
                                  auth_token |-> TRUE]}
                ELSE users
    /\ profiles' = IF st = 201
                   THEN profiles \cup {[user |-> id, profile_type |-> data.type,
                                        location |-> ""]}
                   ELSE profiles
    /\ last' = Response("registration", "POST", 0, IF st = 201 THEN id ELSE 0, st,
                        IF st = 201 THEN "user" ELSE "error")
    /\ UNCHANGED <<offers, details, orders, reviews, idVars, workers>>

-----------------------------------------------------------------------------
(* Specifications *)

Init ==
    /\ users = SeedUsers
    /\ profiles = SeedProfiles
    /\ offers = {}
    /\ details = {}
    /\ orders = {}
    /\ reviews = {}
    /\ nextOfferId = 1
    /\ nextDetailId = 1
    /\ nextOrderId = 1
    /\ nextReviewId = 1
    /\ workers = [w \in 1..NumWorkers |-> Idle]
    /\ last = NoRequest

ReviewIds == 1..MaxReviewId

\* the review endpoints, one request at a time
NextReviews ==
    \/ \E u \in UserIds, data \in ReviewCreateInputs : ReviewsCreate(u, data)
    \/ \E m \in {"PATCH", "PUT"}, u \in UserIds, pk \in ReviewIds,
          data \in ReviewUpdateInputs : ReviewsUpdate(m, u, pk, data)
    \/ \E u \in UserIds, pk \in ReviewIds : ReviewsDestroy(u, pk)

SpecReviews == Init /\ [][NextReviews]_vars

OfferIds == 1..MaxOfferId

DetailIds == 1..MaxDetailId

\* the requesters of the offer endpoints: a customer, a business user, an
\* admin and a user without profile
OfferRequesters == {1, 2, 3, 6}

\* offer creation and deletion, over every create payload
NextOfferCreate ==
    \/ \E u \in OfferRequesters, data \in OfferCreateInputs : OffersCreate(u, data)
    \/ \E u \in OfferRequesters, pk \in OfferIds : OffersDestroy(u, pk)

SpecOfferCreate == Init /\ [][NextOfferCreate]_vars

\* the offer and offer-detail endpoints at work on one offer at a time (offers
\* side by side are the matter of SpecOfferCreate); the offer-detail endpoints
\* ask for nothing but authentication, so one requester stands for all
NextOffers ==
    \/ \E u \in OfferRequesters,
          data \in { OfferData(AllOfferKeys, "Logo", "d", <<Basic, Standard, Premium>>),
                     OfferData(AllOfferKeys, "Logo", "d", <<Premium, Basic>>) } :
          offers = {} /\ OffersCreate(u, data)
    \/ \E m \in {"PATCH", "PUT"}, u \in OfferRequesters, pk \in OfferIds,
          data \in OfferUpdateInputs : OffersUpdate(m, u, pk, data)
    \/ \E u \in OfferRequesters, pk \in OfferIds : OffersDestroy(u, pk)
    \/ \E d \in {Budget, Negative} : OfferDetailsCreate(1, d)
    \/ \E m \in {"PATCH", "PUT"}, pk \in DetailIds, d \in {Budget, Negative} :
          OfferDetailsUpdate(m, 1, pk, d)
    \/ \E pk \in DetailIds : OfferDetailsDestroy(1, pk)

SpecOffers == Init /\ [][NextOffers]_vars

OrderIds == 1..MaxOrderId

\* the requesters of the order endpoints: the customer and the business user
\* of the orders, an admin, another customer and a user without profile
OrderRequesters == {1, 2, 3, 5, 6}

\* the order endpoints, beside one offer that its owner creates, edits and
\* deletes; orders also come in through the admin site
NextOrders ==
    \/ \E data \in {OfferData(AllOfferKeys, "Logo", "d", <<Basic, Standard>>)} :
          offers = {} /\ OffersCreate(2, data)
    \/ \E pk \in OfferIds, data \in {OfferData({"title", "details"}, "Web", "", <<Budget>>)} :
          OffersUpdate("PATCH", 2, pk, data)
    \/ \E pk \in OfferIds : OffersDestroy(2, pk)
    \/ OrdersAdminAdd(1, 2, "Logo", Basic)
    \/ \E u \in OrderRequesters, pk \in 1..2 : OrdersCreate(u, pk)
    \/ \E m \in {"PATCH", "PUT"}, u \in OrderRequesters, pk \in OrderIds,
          st \in StatusInputs : OrdersUpdate(m, u, pk, st)
    \/ \E u \in OrderRequesters, pk \in OrderIds : OrdersDestroy(u, pk)

SpecOrders == Init /\ [][NextOrders]_vars

\* the review endpoints with concurrent creates: each worker runs the check
\* and the save of perform_create as separate steps
NextReviewsConc ==
    \/ \E w \in 1..NumWorkers, u \in UserIds, data \in ReviewCreateInputs :
          ReviewsCreateCheck(w, u, data)
    \/ \E w \in 1..NumWorkers : ReviewsCreateSave(w)
    \/ \E u \in UserIds, pk \in ReviewIds : ReviewsDestroy(u, pk)

SpecReviewsConc == Init /\ [][NextReviewsConc]_vars

\* the three create endpoints side by side, for every requester
NextCreates ==
    \/ \E u \in UserIds,
          data \in { OfferData(AllOfferKeys, "Logo", "d", <<Basic, Standard, Premium>>),
                     OfferData({"title", "description"}, "Logo", "d", <<>>) } :
          OffersCreate(u, data)
    \/ \E u \in UserIds, pk \in 1..2 : OrdersCreate(u, pk)
    \/ \E u \in UserIds, data \in ReviewCreateInputs : ReviewsCreate(u, data)

SpecCreates == Init /\ [][NextCreates]_vars

\* the profile endpoints, for every requester, with and without credentials
ProfileRequesters == UserIds \cup {Anonymous}

NextProfiles ==
    \/ \E u \in ProfileRequesters, pk \in UserIds, location \in LocationInputs :
          ProfileUpdate(u, pk, location)

SpecProfiles == Init /\ [][NextProfiles]_vars

\* the profile lists, beside the PATCH that changes what they show
NextProfileLists ==
    \/ \E u \in ProfileRequesters, pk \in UserIds, location \in LocationInputs :
          ProfileUpdate(u, pk, location)
    \/ \E u \in ProfileRequesters, t \in {"business", "customer"} : ProfilesList(u, t)

SpecProfileLists == Init /\ [][NextProfileLists]_vars

\* the requesters of SpecWrites: a customer (the reviewer and the orders'
\* customer), a business user (the offers' owner and the orders' business
\* user), an admin and a user without profile
WriteRequesters == {1, 2, 3, 6}

\* PATCH and DELETE on offers, orders and reviews, on one offer, one order
\* and one review at a time, for ids that exist and ids that do not
NextWrites ==
    \/ \E data \in {OfferData(AllOfferKeys, "Logo", "d", <<Basic>>)} :
          offers = {} /\ OffersCreate(2, data)
    \/ \E u \in WriteRequesters, pk \in OfferIds,
          data \in {OfferData({"title"}, "Web", "", <<>>)} :
          OffersUpdate("PATCH", u, pk, data)
    \/ \E u \in WriteRequesters, pk \in OfferIds : OffersDestroy(u, pk)
    \/ orders = {} /\ OrdersAdminAdd(1, 2, "Logo", Basic)
    \/ \E u \in WriteRequesters, pk \in OrderIds : OrdersUpdate("PATCH", u, pk, "completed")
    \/ \E u \in WriteRequesters, pk \in OrderIds : OrdersDestroy(u, pk)
    \/ \E data \in {ReviewData(2, MaxRating, "good")} : ReviewsCreate(1, data)
    \/ \E u \in WriteRequesters, pk \in ReviewIds,
          data \in {ReviewPatch({"rating"}, 0, MinRating, "")} :
          ReviewsUpdate("PATCH", u, pk, data)
    \/ \E u \in WriteRequesters, pk \in ReviewIds : ReviewsDestroy(u, pk)

SpecWrites == Init /\ [][NextWrites]_vars

\* the order list, for every requester, beside orders of two customers
\* that come, change status and go
NextOrderLists ==
    \/ \E c \in {1, 5} : OrdersAdminAdd(c, 2, "Logo", Basic)
    \/ \E pk \in OrderIds, st \in {"completed", "cancelled"} :
          OrdersUpdate("PATCH", 2, pk, st)
    \/ \E pk \in OrderIds : OrdersDestroy(3, pk)
    \/ \E u \in UserIds \cup {0} : OrdersList(u)

SpecOrderLists == Init /\ [][NextOrderLists]_vars

\* the status updates of orders, by the orders' customer, their business
\* user and an admin, with every status a request may carry
NextOrderStatus ==
    \/ OrdersAdminAdd(1, 2, "Logo", Basic)
    \/ \E m \in {"PATCH", "PUT"}, u \in {1, 2, 3}, pk \in OrderIds, st \in StatusInputs :
          OrdersUpdate(m, u, pk, st)
    \/ \E pk \in OrderIds : OrdersDestroy(3, pk)

SpecOrderStatus == Init /\ [][NextOrderStatus]_vars

\* the two order counts, asked by a customer and without credentials, for
\* two business users and for a user id that does not exist, beside orders
\* of both business users that come, change status and go
NextOrderCounts ==
    \/ \E b \in {2, 4} : OrdersAdminAdd(1, b, "Logo", Basic)
    \/ \E u \in {2, 4}, pk \in OrderIds, st \in StatusChoices :
          OrdersUpdate("PATCH", u, pk, st)
    \/ \E pk \in OrderIds : OrdersDestroy(3, pk)
    \/ \E u \in {0, 1}, pk \in {2, 4, 99} : BusinessOrderCountList(u, pk)
    \/ \E u \in {0, 1}, pk \in {2, 4, 99} : BusinessCompletedOrderCountList(u, pk)

SpecOrderCounts == Init /\ [][NextOrderCounts]_vars

\* the requesters of the step-by-step offer requests: a business user and
\* a customer
StepRequesters == {1, 2}

\* the payloads of the step-by-step offer creation
StepCreateInputs ==
    { OfferData(AllOfferKeys, "Logo", "d", <<Basic, Standard, Premium>>),
      OfferData(AllOfferKeys, "Logo", "d", <<Premium, Basic>>),
      OfferData(AllOfferKeys, "Logo", "d", <<>>) }

\* offer requests whose writes are committed one by one, where any reader can
\* see them: one request in flight and one offer at a time
NextOfferSteps ==
    \/ \E w \in 1..NumWorkers, u \in StepRequesters, data \in StepCreateInputs :
           /\ offers = {}
           /\ \A v \in 1..NumWorkers : workers[v].phase = "idle"
           /\ OffersCreateBegin(w, u, data)
    \/ \E w \in 1..NumWorkers : OffersCreateDetail(w)
    \/ \E w \in 1..NumWorkers : OffersCreateSave(w)
    \/ \E w \in 1..NumWorkers, method \in {"PATCH", "PUT"}, u \in StepRequesters,
          pk \in 1..MaxOfferId, data \in OfferUpdateInputs :
           /\ \A v \in 1..NumWorkers : workers[v].phase = "idle"
           /\ OffersUpdateBegin(w, method, u, pk, data)
    \/ \E w \in 1..NumWorkers : OffersUpdateDetail(w)
    \/ \E w \in 1..NumWorkers : OffersUpdateDelete(w)
    \/ \E w \in 1..NumWorkers : OffersUpdateSave(w)

SpecOfferSteps == Init /\ [][NextOfferSteps]_vars

\* registrations only
NextRegistration == \E data \in RegisterInputs : Register(data)

SpecRegistration == Init /\ [][NextRegistration]_vars

\* single orders read by every requester, beside orders of two customers
\* that come and go
NextOrderRetrieve ==
    \/ \E c \in {1, 5} : OrdersAdminAdd(c, 2, "Logo", Basic)
    \/ \E pk \in OrderIds : OrdersDestroy(3, pk)
    \/ \E u \in UserIds \cup {Anonymous}, pk \in 1..MaxOrderId : OrdersRetrieve(u, pk)

SpecOrderRetrieve == Init /\ [][NextOrderRetrieve]_vars

-----------------------------------------------------------------------------
(* Properties of the review endpoints *)

HasCustomerProfile(u) ==
    \E p \in profiles : p.user = u /\ p.profile_type = "customer"

ReviewsOf(reviewer, business) ==
    {r \in reviews : r.reviewer = reviewer /\ r.business_user = business}

\* C1: in every reachable state, also when two create requests of the same
\* reviewer for the same business interleave (both run the existence check
\* before either saves), at most one Review exists per (reviewer,
\* business_user) pair.
C1_AtMostOneReviewPerPair ==
    \A r1 \in reviews, r2 \in reviews :
        (r1.reviewer = r2.reviewer /\ r1.business_user = r2.business_user)
            => r1.id = r2.id

\* C2: for sequential requests, a review create by a requester R with a
\* customer profile for an existing user B with a rating in [1,5] and a
\* non-blank description answers 201 and adds exactly the review (R, B) if R
\* has no review for B, and answers 400 and leaves the reviews unchanged if R
\* has one; so R can create again once the review has been deleted.
C2_CreateIffNoReviewYet ==
    [][ last'.op = "reviews.create" =>
        LET u == last'.user IN
        \A data \in ReviewCreateInputs :
          ( /\ data.business_user = last'.pk
            /\ ReviewsCreate(u, data)
            /\ HasCustomerProfile(u)
            /\ data.business_user \in UserIds
            /\ data.rating \in MinRating..MaxRating
            /\ data.description # "" )
          => IF ReviewsOf(u, data.business_user) = {}
             THEN /\ last'.status = 201
                  /\ \E r \in reviews' :
                        /\ r.reviewer = u /\ r.business_user = data.business_user
                        /\ r.rating = data.rating /\ r.description = data.description
                        /\ r \notin reviews
                        /\ reviews' = reviews \cup {r}
             ELSE /\ last'.status = 400
                  /\ reviews' = reviews ]_vars

\* C2 witness: customer 1 has just created a review for business 2 once more
\* (the review with id 1 is gone), and a second create was turned down before
C2_Witness ==
    /\ last.op = "reviews.create" /\ last.user = 1 /\ last.pk = 2
    /\ last.status = 201
    /\ \E r \in reviews : r.id = 2 /\ r.reviewer = 1 /\ r.business_user = 2
    /\ ~ReviewExists(1)

-----------------------------------------------------------------------------
(* Properties of the order endpoints *)

Snapshot(o) ==
    <<o.title, o.price, o.revisions, o.delivery_time_in_days, o.features,
      o.offer_type>>

C4_StatusOnlyByBusinessOrAdmin ==
    [][ /\ \A o \in orders, o2 \in orders' :
              (o.id = o2.id /\ o.status # o2.status)
                  => (last'.user = o.business_user \/ is_staff(last'.user))
        /\ ( /\ last'.op = "orders.update"
             /\ OrderExists(last'.pk)
             /\ last'.user # OrderGet(last'.pk).business_user
             /\ ~is_staff(last'.user) )
           => (last'.status = 403 /\ orders' = orders) ]_vars

\* C9: an order disappears only through a delete request of an admin; a
\* delete request of a requester who is not an admin is rejected (403 when
\* the order exists) and leaves every order in place.
C9_DeleteOnlyByAdmin ==
    [][ /\ (\E o \in orders : \A o2 \in orders' : o2.id # o.id)
              => (last'.op = "orders.destroy" /\ is_staff(last'.user))
        /\ (last'.op = "orders.destroy" /\ ~is_staff(last'.user))
              => /\ orders' = orders
                 /\ last'.status = IF OrderExists(last'.pk) THEN 403 ELSE 404 ]_vars

\* C9 witness: the business user of order 1 asked for its deletion, got 403,
\* and the order is still there
C9_Witness ==
    /\ last.op = "orders.destroy" /\ last.status = 403 /\ last.user = 2
    /\ \E o \in orders : o.id = last.pk /\ o.business_user = 2

MutatingOps ==
    { "offers.create", "offers.update", "offers.destroy",
      "orders.create", "orders.update", "orders.destroy",
      "reviews.create", "reviews.update", "reviews.destroy" }

\* C10: a requester with is_staff, with or without a profile, is never denied
\* (403) on a create, update or delete of offers, orders and reviews.
C10_AdminNeverDenied ==
    (last.op \in MutatingOps /\ is_staff(last.user)) => last.status # 403

-----------------------------------------------------------------------------
(* Properties of the offer endpoints *)

\* C5: an offer is modified or deleted only by its owner or an admin: a PATCH,
\* PUT or DELETE on an existing offer by anybody else is rejected with 403 and
\* leaves the offer and its details unchanged.
C5_OfferWriteOnlyByOwnerOrAdmin ==
    [][ ( /\ last'.op \in {"offers.update", "offers.destroy"}
          /\ OfferExists(last'.pk)
          /\ last'.user # OfferGet(last'.pk).user
          /\ ~is_staff(last'.user) )
        => (last'.status = 403 /\ offers' = offers /\ details' = details) ]_vars

HasMinima(o, ds) ==
    ds # {} =>
      /\ \E d \in ds : d.price = o.min_price
      /\ \A d \in ds : o.min_price <= d.price
      /\ \E d \in ds : d.delivery_time_in_days = o.min_delivery_time
      /\ \A d \in ds : o.min_delivery_time <= d.delivery_time_in_days

\* C6: right after a successful offer create, the new offer's min_price is the
\* lowest price and its min_delivery_time the lowest delivery_time_in_days
\* among the details created with it.
C6_MinimaAfterCreate ==
    (last.op = "offers.create" /\ last.status = 201)
        => \E o \in offers :
              /\ o.id = last.pk
              /\ HasMinima(o, DetailsOf(details, o.id))

\* C6 witness: an offer was created whose first detail is neither the
\* cheapest nor the only fastest one
C6_Witness ==
    /\ last.op = "offers.create" /\ last.status = 201
    /\ \E o \in offers :
          /\ o.id = last.pk /\ o.min_price = 5 /\ o.min_delivery_time = 1
          /\ \E d \in DetailsOf(details, o.id) : d.price = 30
          /\ Cardinality(DetailsOf(details, o.id)) = 3

\* C7: in every state, each offer that has details has min_price equal to the
\* lowest price and min_delivery_time equal to the lowest
\* delivery_time_in_days of its current details.
C7_MinimaAlways ==
    \A o \in offers : HasMinima(o, DetailsOf(details, o.id))

\* C8: an offer create whose payload does not carry exactly 3 details is
\* rejected and persists no offer and no detail; for a requester who may
\* create offers the rejection is the validation error 400.
C8_ExactlyThreeDetails ==
    [][ last'.op = "offers.create" =>
        \A data \in OfferCreateInputs :
          (OffersCreate(last'.user, data) /\ Len(data.details) # 3)
          => /\ last'.status \in {400, 403}
             /\ OffersViewSet_check_permissions("POST", last'.user, 0)
                   => last'.status = 400
             /\ offers' = offers /\ details' = details ]_vars

-----------------------------------------------------------------------------
(* Properties of the create permissions *)

HasBusinessProfile(u) ==
    \E p \in profiles : p.user = u /\ p.profile_type = "business"

\* C11: a POST of an order or of a review by a requester who is not an admin
\* and has no customer profile (a business profile or none) is answered 403
\* and creates no order and no review.
C11_CreateNeedsCustomerProfile ==
    [][ ( /\ last'.op \in {"orders.create", "reviews.create"}
          /\ ~is_staff(last'.user)
          /\ ~HasCustomerProfile(last'.user) )
        => (last'.status = 403 /\ orders' = orders /\ reviews' = reviews) ]_vars

\* C11 witness: a business user who is not an admin was refused an order
\* for an existing OfferDetail
C11_Witness ==
    /\ last.op = "orders.create" /\ last.status = 403
    /\ HasBusinessProfile(last.user) /\ ~is_staff(last.user)
    /\ DetailExists(last.pk)

\* C12: a POST of an offer by a requester who is not an admin and has no
\* business profile (a customer profile or none) is answered 403 and creates
\* no offer and no detail; a requester with a business profile is let through
\* (201, or 400 for an invalid payload) and owns the offer that is created.
C12_OfferCreateNeedsBusinessProfile ==
    [][ last'.op = "offers.create" =>
        /\ (~is_staff(last'.user) /\ ~HasBusinessProfile(last'.user))
              => (last'.status = 403 /\ offers' = offers /\ details' = details)
        /\ HasBusinessProfile(last'.user)
              => /\ last'.status \in {201, 400}
                 /\ last'.status = 201
                       => \E o \in offers' \ offers :
                             o.id = last'.pk /\ o.user = last'.user ]_vars

\* C12 witness: a customer was refused while the offer a business user
\* created before is there
C12_Witness ==
    /\ last.op = "offers.create" /\ last.status = 403
    /\ HasCustomerProfile(last.user) /\ ~is_staff(last.user)
    /\ \E o \in offers : HasBusinessProfile(o.user) /\ ~is_staff(o.user)

-----------------------------------------------------------------------------
(* Properties of review update and delete *)

\* C13: an update or delete of an existing review is permitted if and only
\* if the requester is its reviewer or an admin: anybody else is answered 403
\* with the reviews unchanged, and the reviewer and every admin, with or
\* without a profile, are not answered 403.
C13_ReviewWriteIffReviewerOrAdmin ==
    [][ ( /\ last'.op \in {"reviews.update", "reviews.destroy"}
          /\ ReviewExists(last'.pk) )
        => LET allowed == \/ ReviewGet(last'.pk).reviewer = last'.user
                          \/ is_staff(last'.user)
           IN /\ ~allowed => (last'.status = 403 /\ reviews' = reviews)
              /\ allowed => last'.status # 403 ]_vars

\* C14: an update of a review whose payload carries a field other than
\* rating and description is answered with an error (a status of 400 or
\* above) and leaves the reviews unchanged.
C14_DisallowedFieldsRejected ==
    [][ last'.op = "reviews.update" =>
        \A data \in ReviewUpdateInputs :
          ( /\ data.keys \ {"rating", "description"} # {}
            /\ ReviewsUpdate(last'.method, last'.user, last'.pk, data) )
          => (last'.status >= 400 /\ reviews' = reviews) ]_vars

-----------------------------------------------------------------------------
(* Properties of the profile endpoints *)

\* C15: a profile is modified only through a request of the user who owns
\* it: a PATCH on the profile of somebody else, by any authenticated
\* requester, an admin included, is answered 403 and leaves the profiles
\* unchanged, and the owner's PATCH is answered 200 and stores the new value.
C15_ProfileOwnerOnly ==
    [][ /\ profiles' # profiles
           => (last'.op = "profile.update"
               /\ \A p \in profiles \ profiles' : p.user = last'.user)
        /\ ( /\ last'.op = "profile.update"
             /\ ProfilExists(last'.pk)
             /\ IsAuthenticated(last'.user) )
           => IF last'.user = last'.pk
              THEN last'.status = 200
              ELSE last'.status = 403 /\ profiles' = profiles ]_vars

\* C15 witness: an admin was refused on the profile of a business user who
\* has moved to Frankfurt through a PATCH of his own
C15_Witness ==
    /\ last.op = "profile.update" /\ last.status = 403 /\ is_staff(last.user)
    /\ \E p \in profiles :
          p.user = last.pk /\ p.user # last.user /\ p.location = "Frankfurt"

\* C16: a GET of /profiles/business/ or /profiles/customer/ without
\* credentials is answered 200 with exactly the profiles of the type asked for.
C16_PublicProfileLists ==
    \A t \in {"business", "customer"} :
        (last.op = "profiles.list." \o t /\ last.user = Anonymous)
            => /\ last.status = 200
               /\ last.body = {p \in profiles : p.profile_type = t}

-----------------------------------------------------------------------------
(* Properties of requests on ids that do not exist *)

\* C17: a PATCH or DELETE on an offer, order or review id that does not
\* exist is answered 404, never 403, whoever asks, and changes nothing.
C17_NotFoundBeforeForbidden ==
    [][ ( /\ last'.method \in {"PATCH", "DELETE"}
          /\ \/ last'.op \in {"offers.update", "offers.destroy"} /\ ~OfferExists(last'.pk)
             \/ last'.op \in {"orders.update", "orders.destroy"} /\ ~OrderExists(last'.pk)
             \/ last'.op \in {"reviews.update", "reviews.destroy"} /\ ~ReviewExists(last'.pk) )
        => (last'.status = 404 /\ UNCHANGED dbVars) ]_vars

\* C17 witness: a requester who is neither an admin nor the owner of any
\* offer got 404 for a PATCH on an offer id that does not exist, while
\* another offer does
C17_Witness ==
    /\ last.op = "offers.update" /\ last.method = "PATCH" /\ last.status = 404
    /\ ~is_staff(last.user) /\ ~OfferExists(last.pk)
    /\ offers # {} /\ \A o \in offers : o.user # last.user

-----------------------------------------------------------------------------
(* Properties of the order list and of the order status *)

\* C18: the order list answered to a requester who is not an admin holds
\* exactly the orders whose customer_user or business_user he is; the list
\* answered to an admin holds all orders.
C18_OrderListVisibility ==
    [][ (last'.op = "orders.list" /\ last'.status = 200)
        => last'.body =
             IF is_staff(last'.user) THEN orders'
             ELSE {o \in orders' : \/ o.customer_user = last'.user
                                   \/ o.business_user = last'.user} ]_vars

\* C18 witness: the business user of two orders of different customers was
\* listed both of them
C18_Witness ==
    /\ last.op = "orders.list" /\ last.status = 200 /\ ~is_staff(last.user)
    /\ \E o1, o2 \in last.body :
          /\ o1.customer_user # o2.customer_user
          /\ o1.business_user = last.user /\ o2.business_user = last.user
          /\ o1.customer_user # last.user /\ o2.customer_user # last.user

DeclaredStatuses == {"in_progress", "completed", "cancelled"}

\* C19: an order status update whose status is missing or not one of
\* in_progress, completed, cancelled leaves the orders unchanged and is
\* answered 400 (403 when the requester may not update the order at all), so
\* every order's status is one of the declared statuses in every state.
C19_OnlyDeclaredStatuses ==
    [][ /\ \A o \in orders' : o.status \in DeclaredStatuses
        /\ (last'.op = "orders.update" /\ OrderExists(last'.pk)) =>
             \A st \in StatusInputs \ DeclaredStatuses :
               OrdersUpdate(last'.method, last'.user, last'.pk, st)
               => /\ orders' = orders
                  /\ last'.status \in {400, 403}
                  /\ ( \/ is_staff(last'.user)
                       \/ OrderGet(last'.pk).business_user = last'.user )
                     => last'.status = 400 ]_vars

\* C19 witness: the business user of an order that is in progress was
\* answered 400 on its update
C19_Witness ==
    /\ last.op = "orders.update" /\ last.status = 400 /\ ~is_staff(last.user)
    /\ \E o \in orders :
          o.id = last.pk /\ o.business_user = last.user /\ o.status = "in_progress"

\* C20: completed and cancelled are terminal: a status update by the
\* order's business user never moves an order that is completed or cancelled
\* to another status.
C20_TerminalStatuses ==
    [][ last'.op = "orders.update" =>
        \A o \in orders, o2 \in orders' :
          ( /\ o.id = o2.id /\ o.id = last'.pk
            /\ last'.user = o.business_user
            /\ o.status \in {"completed", "cancelled"} )
          => o2.status = o.status ]_vars

C22_OrderCounts ==
    [][ /\ (last'.op = "order-count" /\ last'.user # 0 /\ UserExists(last'.pk))
           => /\ last'.status = 200
              /\ last'.body =
                   [order_count |->
                      Cardinality({o \in orders' : /\ o.business_user = last'.pk
                                                   /\ o.status = "in_progress"})]
        /\ (last'.op = "completed-order-count" /\ last'.user # 0 /\ UserExists(last'.pk))
           => /\ last'.status = 200
              /\ last'.body =
                   [completed_order_count |->
                      Cardinality({o \in orders' : /\ o.business_user = last'.pk
                                                   /\ o.status = "completed"})]
        /\ \A o \in orders, o2 \in orders' :
             ( /\ last'.op = "orders.update" /\ o.id = last'.pk /\ o2.id = o.id
               /\ o.status = "in_progress" /\ o2.status = "completed" )
             => /\ BusinessOrderCountViewSet_count(o.business_user)'
                      = BusinessOrderCountViewSet_count(o.business_user) - 1
                /\ BusinessCompletedOrderCountViewSet_count(o.business_user)'
                      = BusinessCompletedOrderCountViewSet_count(o.business_user) + 1
      ]_vars

\* C22 witness: completed-order-count answered 1 for a business user who
\* also has an order in progress
C22_Witness ==
    /\ last.op = "completed-order-count" /\ last.status = 200
    /\ last.body = [completed_order_count |-> 1]
    /\ \E o \in orders : o.business_user = last.pk /\ o.status = "in_progress"

-----------------------------------------------------------------------------
(* Properties of order creation *)

\* C23: an order create by a requester with a customer profile for an
\* existing OfferDetail is answered 201 and adds an order whose customer_user
\* is the requester, whose business_user is the owner of the detail's offer
\* and whose status is in_progress.
C23_OrderCreateSucceeds ==
    [][ ( /\ last'.op = "orders.create"
          /\ HasCustomerProfile(last'.user)
          /\ DetailExists(last'.pk) )
        => /\ last'.status = 201
           /\ \E o \in orders' \ orders :
                 /\ o.customer_user = last'.user
                 /\ o.business_user = OfferGet(DetailGet(last'.pk).offer).user
                 /\ o.status = "in_progress" ]_vars

\* C24: an order create that names an OfferDetail id that does not exist is
\* answered 404 and creates no order.
C24_OrderCreateDetailNotFound ==
    [][ ( /\ last'.op = "orders.create"
          /\ HasCustomerProfile(last'.user)
          /\ ~DetailExists(last'.pk) )
        => (last'.status = 404 /\ orders' = orders) ]_vars

\* C25: no reader sees an offer whose min_price or min_delivery_time differs
\* from the minimum over its stored details, nor an offer being created that
\* has fewer details than its payload
C25_NoIntermediateState ==
    /\ \A o \in offers :
          DetailsOf(details, o.id) # {} => HasMinima(o, DetailsOf(details, o.id))
    /\ \A w \in 1..NumWorkers :
          workers[w].phase = "create" =>
              Cardinality(DetailsOf(details, workers[w].pk)) = Len(workers[w].data.details)

-----------------------------------------------------------------------------
(* Properties of registration *)

\* C26: a registration whose username or email equals that of an existing
\* user (and whose email is well-formed) is rejected with 400 and creates no
\* user, profile or token, and no two users ever share a username or an email.
C26_RegistrationUnique ==
    /\ [](\A u, v \in users :
             u.id # v.id => (u.username # v.username /\ u.email # v.email))
    /\ [][ \A data \in RegisterInputs :
             ( /\ Register(data)
               /\ validate_email(data.email)
               /\ \E u \in users : u.username = data.username \/ u.email = data.email )
             => (last'.status = 400 /\ users' = users /\ profiles' = profiles) ]_vars

\* C27: every user created by a registration owns exactly one profile, of
\* type customer or business, and a registration with any other type
\* creates no user.
C27_RegistrationProfile ==
    /\ [](\A u \in users \ SeedUsers :
             /\ Cardinality({p \in profiles : p.user = u.id}) = 1
             /\ \A p \in profiles : p.user = u.id => p.profile_type \in type_choices)
    /\ [][ \A data \in RegisterInputs :
             (Register(data) /\ data.type \notin type_choices) => users' = users ]_vars

-----------------------------------------------------------------------------
(* Properties of the offer update *)

\* the tiers named by the details list of an update payload
NamedTiers(data) == {data.details[i].offer_type : i \in 1..Len(data.details)}

\* C28: a successful offer update with a details list leaves exactly one
\* detail for each tier the payload names, the existing detail of that tier
\* updated in place or else a new one, and no detail of any other tier; an
\* update without a details list leaves the details unchanged.
C28_MergeByTier ==
    [][ \A m \in {"PATCH", "PUT"}, u \in OfferRequesters, pk \in OfferIds,
          data \in OfferUpdateInputs :
          (OffersUpdate(m, u, pk, data) /\ last'.status = 200)
          => IF "details" \in data.keys
             THEN /\ \A t \in NamedTiers(data) :
                       \E d \in DetailsOf(details', pk) :
                          /\ d.offer_type = t
                          /\ \A e \in DetailsOf(details', pk) :
                                e.offer_type = t => e = d
                          /\ (\E e \in DetailsOf(details, pk) : e.offer_type = t)
                                => \E e \in DetailsOf(details, pk) :
                                      e.offer_type = t /\ e.id = d.id
                          /\ (~\E e \in DetailsOf(details, pk) : e.offer_type = t)
                                => ~\E e \in details : e.id = d.id
                  /\ \A d \in DetailsOf(details', pk) : d.offer_type \in NamedTiers(data)
             ELSE details' = details ]_vars

\* C29: an offer update rejected with a validation error, such as one with a
\* details entry without offer_type, also after valid entries, leaves the
\* offer and all of its details as they were.
C29_RejectedUpdateChangesNothing ==
    [][ (last'.op = "offers.update" /\ last'.status = 400)
        => (offers' = offers /\ details' = details) ]_vars

-----------------------------------------------------------------------------
(* Properties of reading a single order *)

\* C30: a requester who is not an admin retrieves a single order only if the
\* order list returns that order to him, that is only if he is the order's
\* customer_user or business_user.
C30_RetrieveOnlyOwnOrders ==
    [][ ( /\ last'.op = "orders.retrieve"
          /\ last'.status = 200
          /\ ~is_staff(last'.user) )
        => OrderGet(last'.pk) \in OrdersViewSet_get_queryset(last'.user) ]_vars

====
